---------------------------- MODULE Spec2Model ----------------------------
(***************************************************************************)
(* Moodify: the recommendation fallback orchestration of                   *)
(* spotify_helper.recommend_tracks, the emotion normalisation of           *)
(* emotion.EmotionDetector.predict, run_generation and the session of      *)
(* moodify.py, and spotify_helper.create_playlist_and_add_tracks.          *)
(*                                                                         *)
(* The Spotify client sp is an external service: every sp.track,           *)
(* sp.recommendations and sp.search call is a nondeterministic choice      *)
(* among the shapes of answer enumerated below (raise, None, a non-dict    *)
(* value, or a dict of some shape).                                        *)
(***************************************************************************)
EXTENDS Integers, Sequences, FiniteSets, TLC

VARIABLES
    \* ---- recommend_tracks: program state
    pc,               \* position in recommend_tracks
    n,                \* len(raw_seeds); raw seed k is the id k
    i,                \* index of the next raw seed to validate
    valid_seed_objs,  \* validated seed objects, as [seed, id]
    valid_seeds,      \* ids handed to the seed-based recommendation call
    result,           \* the value returned (pc = "done")
    q,                \* index into search_queries
    items,            \* number of items of the current search result
    idx,              \* index of the next search item to validate
    kid,              \* index into known_good_ids
    \* ---- recommend_tracks: history of the external calls
    okLookup,         \* raw seeds whose sp.track answer was a playable object
    entered,          \* fallback states in which a call was issued, in order
    last,             \* the last external call and whether it raised
    hit,              \* the first recommendation answer that carried tracks
    yielded,          \* fallback states that yielded a track
    firstPassed,      \* first search position whose lookup passed the check
    okWithId,         \* raw seeds whose playable object carried an id
    seedArg,          \* seed_tracks argument of the seed-based call
    \* ---- EmotionDetector.predict
    ppc,              \* position in predict
    raw,              \* the classifier output: list of [label, score]
    pidx,             \* index of the next raw entry
    scores,           \* category -> rational weight [num, den]
    top,              \* the top category
    top_score,        \* its weight
    \* ---- moodify.run_generation
    gpc,              \* position in run_generation
    candidates,       \* the candidate pool: the id of each track object (0: none)
    track_ids,        \* ids of the candidates that have one, in pool order
    forder,           \* keys of features_map in the order of its values()
    sampled_indices,  \* what score_and_sample_tracks returned (0-based)
    sampled_tracks,   \* the tracks returned, as positions in candidates
    \* ---- moodify: session state and one script run per UI event
    st_sp,            \* st.session_state.sp: "None" or "client"
    current_playlist, \* [run, val]: the stored sampled tracks (run 0: None)
    features_map,     \* [run, val]: the stored features map
    last_emotion,     \* [run, val]
    last_behavior,    \* [run, val]
    last_prompt,      \* [run, val]
    runs,             \* number of run_generation calls so far
    predictCalls,     \* prompts EmotionDetector.predict was called with
    lastEvent,        \* what the last script run did
    before,           \* the stored result as the last script run found it (<< >> once a run has stored a new one, or stored nothing to compare)
    createArg,        \* track_ids the last script run handed to create_playlist_and_add_tracks
    lastClick,        \* the button of the last script run, and whether a playlist was stored when it began
    \* ---- create_playlist_and_add_tracks
    cpc,              \* position in create_playlist_and_add_tracks
    pl_track_ids,     \* the track_ids argument, as [isNone, val]
    prepared,         \* the normalized references
    chunk_start,      \* i of `for i in range(0, len(prepared), 100)`
    added,            \* the items of each playlist_add_items call made, in call order
    created           \* number of user_playlist_create calls, raising ones included

recVars == <<pc, n, i, valid_seed_objs, valid_seeds, result, q, items, idx, kid,
             okLookup, entered, last, hit, yielded, firstPassed, okWithId, seedArg>>
predVars == <<ppc, raw, pidx, scores, top, top_score>>
genVars == <<gpc, candidates, track_ids, forder, sampled_indices, sampled_tracks>>
uiVars == <<st_sp, current_playlist, features_map, last_emotion, last_behavior,
            last_prompt, runs, predictCalls, lastEvent, before, createArg, lastClick>>
plVars == <<cpc, pl_track_ids, prepared, chunk_start, added, created>>
vars == <<recVars, predVars, genVars, uiVars, plVars>>

\* A stored session value that was never set (None).
NoneV == [run |-> 0, val |-> << >>]

IdleGen ==
    /\ gpc = "idle"
    /\ candidates = << >>
    /\ track_ids = << >>
    /\ forder = << >>
    /\ sampled_indices = << >>
    /\ sampled_tracks = << >>

\* no button clicked yet
NoClick == [button |-> "none", hadPlaylist |-> FALSE]

IdleUI ==
    /\ st_sp = "idle"
    /\ current_playlist = NoneV
    /\ features_map = NoneV
    /\ last_emotion = NoneV
    /\ last_behavior = NoneV
    /\ last_prompt = NoneV
    /\ runs = 0
    /\ predictCalls = {}
    /\ lastEvent = "none"
    /\ before = << >>
    /\ createArg = << >>
    /\ lastClick = NoClick

\* track_ids = None
NoneArg == [isNone |-> TRUE, val |-> << >>]

IdlePlaylist ==
    /\ cpc = "idle"
    /\ pl_track_ids = NoneArg
    /\ prepared = << >>
    /\ chunk_start = 0
    /\ added = << >>
    /\ created = 0

-----------------------------------------------------------------------------
(* Bounds *)

MaxSeeds == 6
MaxOrchSeeds == 2
MaxTracks == 2
MaxItems == 2

(* Program constants *)

SeedCap == 5
NumSearchQueries == 10
NumKnownGood == 3

-----------------------------------------------------------------------------
(* Answers of the external service *)

\* sp.track(tid): raises, returns None, or returns a track object of some shape.
NoneT == [kind |-> "none", is_playable |-> "absent", reason |-> "absent",
          uri |-> FALSE, id |-> FALSE, artists_ok |-> TRUE]

RaiseT == [NoneT EXCEPT !.kind = "raise"]

TrackOutcomes ==
    {NoneT, RaiseT} \cup
    [kind : {"obj"}, is_playable : {"true", "false", "absent"},
     reason : {"absent", "market", "premium", "other"},
     uri : BOOLEAN, id : BOOLEAN, artists_ok : BOOLEAN]

\* A returned track, named by where it came from.
Track(src, a, b) == [src |-> src, q |-> a, idx |-> b]

RECURSIVE SeqsUpTo(_, _)
SeqsUpTo(S, k) ==
    IF k = 0 THEN {<< >>}
    ELSE LET shorter == SeqsUpTo(S, k - 1)
         IN  shorter \cup {Append(s, x) : s \in {t \in shorter : Len(t) = k - 1}, x \in S}

RecTracks == {Track("rec", 0, k) : k \in 1..2}

\* sp.recommendations(...): raises, returns None, a falsy or truthy non-dict
\* value, or a dict whose 'tracks' is a list.
NoneR == [kind |-> "none", tracks |-> << >>]

RecOutcomes ==
    [kind : {"raise", "none", "falsy", "truthy"}, tracks : {<< >>}] \cup
    [kind : {"dict"}, tracks : SeqsUpTo(RecTracks, MaxTracks)]

\* sp.search(q, limit=8, type="track"): raises, returns a non-dict, a dict whose
\* 'tracks' is not a dict, or a dict with a list of items.
SearchOutcomes ==
    [kind : {"raise", "nondict", "baddict"}, items : {0}] \cup
    [kind : {"dict"}, items : 0..MaxItems]

-----------------------------------------------------------------------------
(* recommend_tracks *)

validate_track_no_restriction(o) ==
    IF o.kind = "raise" THEN NoneT
    ELSE IF o.kind = "none" THEN NoneT
    ELSE IF o.is_playable = "false" THEN NoneT
    ELSE IF ~o.uri THEN NoneT
    ELSE o

validate_track(o) ==
    IF o.kind = "raise" THEN NoneT
    ELSE IF o.kind = "none" THEN NoneT
    ELSE IF o.is_playable = "false" THEN NoneT
    ELSE IF o.reason \in {"market", "premium"} THEN NoneT
    ELSE IF ~o.uri THEN NoneT
    ELSE o

safe_recs_no_except(o) == o

safe_recs(o) == IF o.kind = "raise" THEN NoneR ELSE o

\* `if result and result.get("tracks")`: "return" when it is true, "next" when
\* it is false, "raise" when result has no .get (an exception that safe_recs
\* let through propagates as well)
RecsTest_never(r) ==
    IF r.kind \in {"none", "falsy"} THEN "next"
    ELSE IF r.kind = "truthy" THEN "raise"
    ELSE "next"

RecsTest(r) ==
    IF r.kind \in {"none", "falsy"} THEN "next"
    ELSE IF r.kind \in {"truthy", "raise"} THEN "raise"
    ELSE IF r.tracks # << >> THEN "return"
    ELSE "next"

Min(a, b) == IF a < b THEN a ELSE b

RECURSIVE IdsOf(_)
IdsOf(objs) ==
    IF objs = << >> THEN << >>
    ELSE IF Head(objs).id THEN <<Head(objs).seed>> \o IdsOf(Tail(objs))
    ELSE IdsOf(Tail(objs))

SeedIds(objs) == IdsOf(SubSeq(objs, 1, Min(SeedCap, Len(objs))))

EmptyResult_none == NoneR

EmptyResult == [kind |-> "dict", tracks |-> << >>]

-----------------------------------------------------------------------------
(* What the claims say of an answer *)

PassesCheck(o) ==
    /\ o.kind = "obj"
    /\ o.is_playable # "false"
    /\ o.reason \notin {"market", "premium"}
    /\ o.uri

YieldsTracks(o) == o.kind = "dict" /\ o.tracks # << >>

NoPos == [q |-> 0, idx |-> 0]

Enter(s) ==
    IF entered # << >> /\ entered[Len(entered)] = s THEN entered
    ELSE Append(entered, s)

-----------------------------------------------------------------------------
IdlePredict ==
    /\ ppc = "idle"
    /\ raw = << >>
    /\ pidx = 1
    /\ scores = << >>
    /\ top = "none"
    /\ top_score = [num |-> 0, den |-> 1]

InitRec(maxSeeds) ==
    /\ pc = "validate"
    /\ n \in 0..maxSeeds
    /\ i = 1
    /\ valid_seed_objs = << >>
    /\ valid_seeds = << >>
    /\ result = NoneR
    /\ q = 1
    /\ items = 0
    /\ idx = 1
    /\ kid = 1
    /\ okLookup = {}
    /\ entered = << >>
    /\ last = [call |-> "none", raised |-> FALSE]
    /\ hit = NoneR
    /\ yielded = {}
    /\ firstPassed = NoPos
    /\ okWithId = {}
    /\ seedArg = << >>

Init == InitRec(MaxOrchSeeds) /\ IdlePredict /\ IdleGen /\ IdleUI /\ IdlePlaylist

InitSeeds == InitRec(MaxSeeds) /\ IdlePredict /\ IdleGen /\ IdleUI /\ IdlePlaylist

\* one iteration of `for s in raw_seeds`
ValidateSeed ==
    /\ pc = "validate"
    /\ i <= n
    /\ \E o \in TrackOutcomes :
         LET t == validate_track(o) IN
         /\ valid_seed_objs' = IF t # NoneT
                               THEN Append(valid_seed_objs, [seed |-> i, id |-> t.id])
                               ELSE valid_seed_objs
         /\ okLookup' = IF PassesCheck(o) THEN okLookup \cup {i} ELSE okLookup
         /\ okWithId' = IF PassesCheck(o) /\ o.id THEN okWithId \cup {i} ELSE okWithId
         /\ last' = [call |-> "track_seed", raised |-> o.kind = "raise"]
    /\ i' = i + 1
    /\ entered' = Enter(0)
    /\ UNCHANGED <<pc, n, valid_seeds, result, q, items, idx, kid, hit, yielded,
                   firstPassed, seedArg>>
    /\ UNCHANGED <<predVars, genVars, uiVars, plVars>>

\* the seed ids for the recommendation call, and the choice of the first state
BuildSeeds ==
    /\ pc = "validate"
    /\ i > n
    /\ valid_seeds' = SeedIds(valid_seed_objs)
    /\ pc' = IF valid_seeds' # << >> THEN "recs_seed" ELSE "recs_genres"
    /\ UNCHANGED <<n, i, valid_seed_objs, result, q, items, idx, kid, okLookup,
                   entered, last, hit, yielded, firstPassed, okWithId, seedArg>>
    /\ UNCHANGED <<predVars, genVars, uiVars, plVars>>

\* one safe_recs call and the test of its result
Recs(call, stage, nextpc) ==
    \E o \in RecOutcomes :
      LET r == safe_recs(o)
          t == RecsTest(r)
      IN
      /\ pc' = IF t = "return" THEN "done" ELSE IF t = "raise" THEN "raised" ELSE nextpc
      /\ result' = IF t = "return" THEN r ELSE result
      /\ hit' = IF YieldsTracks(o) /\ hit = NoneR THEN o ELSE hit
      /\ yielded' = IF YieldsTracks(o) THEN yielded \cup {stage} ELSE yielded
      /\ last' = [call |-> call, raised |-> o.kind = "raise"]
      /\ entered' = Enter(stage)

RecsSeed ==
    /\ pc = "recs_seed"
    /\ Recs("recs_seed", 0, "recs_genres")
    /\ seedArg' = valid_seeds
    /\ UNCHANGED <<n, i, valid_seed_objs, valid_seeds, q, items, idx, kid, okLookup,
                   firstPassed, okWithId>>
    /\ UNCHANGED <<predVars, genVars, uiVars, plVars>>

RecsGenres ==
    /\ pc = "recs_genres"
    /\ Recs("recs_genres", 1, "recs_pop")
    /\ UNCHANGED <<n, i, valid_seed_objs, valid_seeds, q, items, idx, kid, okLookup,
                   firstPassed, okWithId, seedArg>>
    /\ UNCHANGED <<predVars, genVars, uiVars, plVars>>

RecsPop ==
    /\ pc = "recs_pop"
    /\ Recs("recs_pop", 2, "search")
    /\ UNCHANGED <<n, i, valid_seed_objs, valid_seeds, q, items, idx, kid, okLookup,
                   firstPassed, okWithId, seedArg>>
    /\ UNCHANGED <<predVars, genVars, uiVars, plVars>>

\* the position after query q is left: the next query, or the known-good ids
AfterQuery == IF q + 1 > NumSearchQueries THEN "known_good" ELSE "search"

\* sp.search for query q
Search ==
    /\ pc = "search"
    /\ \E s \in SearchOutcomes :
         /\ last' = [call |-> "search", raised |-> s.kind = "raise"]
         /\ IF s.kind = "dict" /\ s.items > 0
            THEN /\ pc' = "search_track"
                 /\ items' = s.items
                 /\ idx' = 1
                 /\ q' = q
            ELSE /\ pc' = AfterQuery
                 /\ items' = 0
                 /\ idx' = 1
                 /\ q' = q + 1
    /\ entered' = Enter(3)
    /\ UNCHANGED <<n, i, valid_seed_objs, valid_seeds, result, kid, okLookup, hit,
                   yielded, firstPassed, okWithId, seedArg>>
    /\ UNCHANGED <<predVars, genVars, uiVars, plVars>>

\* validate_track of item idx of the result of query q
SearchTrack ==
    /\ pc = "search_track"
    /\ \E o \in TrackOutcomes :
         LET playable == validate_track(o) IN
         /\ last' = [call |-> "track_search", raised |-> o.kind = "raise"]
         /\ firstPassed' = IF PassesCheck(o) /\ firstPassed = NoPos
                           THEN [q |-> q, idx |-> idx] ELSE firstPassed
         /\ yielded' = IF PassesCheck(o) THEN yielded \cup {3} ELSE yielded
         /\ IF playable # NoneT
            THEN IF playable.artists_ok
                 THEN \* return {"tracks": [playable]}
                      /\ pc' = "done"
                      /\ result' = [kind |-> "dict", tracks |-> <<Track("search", q, idx)>>]
                      /\ UNCHANGED <<q, items, idx>>
                 ELSE \* the arguments of log(...) raise: caught, next query
                      /\ pc' = AfterQuery
                      /\ q' = q + 1
                      /\ items' = 0
                      /\ idx' = 1
                      /\ UNCHANGED result
            ELSE IF idx < items
                 THEN /\ idx' = idx + 1
                      /\ UNCHANGED <<pc, q, items, result>>
                 ELSE /\ pc' = AfterQuery
                      /\ q' = q + 1
                      /\ items' = 0
                      /\ idx' = 1
                      /\ UNCHANGED result
    /\ entered' = Enter(3)
    /\ UNCHANGED <<n, i, valid_seed_objs, valid_seeds, kid, okLookup, hit, okWithId,
                   seedArg>>
    /\ UNCHANGED <<predVars, genVars, uiVars, plVars>>

\* validate_track of known_good_ids[kid]
KnownGood ==
    /\ pc = "known_good"
    /\ \E o \in TrackOutcomes :
         LET t == validate_track(o) IN
         /\ last' = [call |-> "track_known", raised |-> o.kind = "raise"]
         /\ yielded' = IF PassesCheck(o) THEN yielded \cup {4} ELSE yielded
         /\ IF t # NoneT
            THEN /\ pc' = "done"
                 /\ result' = [kind |-> "dict", tracks |-> <<Track("known", 0, kid)>>]
                 /\ kid' = kid
            ELSE IF kid < NumKnownGood
                 THEN /\ kid' = kid + 1
                      /\ UNCHANGED <<pc, result>>
                 ELSE /\ pc' = "done"
                      /\ result' = EmptyResult
                      /\ kid' = kid
    /\ entered' = Enter(4)
    /\ UNCHANGED <<n, i, valid_seed_objs, valid_seeds, q, items, idx, okLookup, hit,
                   firstPassed, okWithId, seedArg>>
    /\ UNCHANGED <<predVars, genVars, uiVars, plVars>>

Next ==
    \/ ValidateSeed
    \/ BuildSeeds
    \/ RecsSeed
    \/ RecsGenres
    \/ RecsPop
    \/ Search
    \/ SearchTrack
    \/ KnownGood

Spec == Init /\ [][Next]_vars

\* States 0 to 2 alone (seed validation and the three recommendation calls),
\* with enough raw seeds for the cap on the seed list to matter.
NextRecs ==
    \/ ValidateSeed
    \/ BuildSeeds
    \/ RecsSeed
    \/ RecsGenres
    \/ RecsPop

SpecRecs == InitSeeds /\ [][NextRecs]_vars

-----------------------------------------------------------------------------
(* Claims about recommend_tracks *)

PcStage ==
    CASE pc \in {"validate", "recs_seed"} -> 0
      [] pc = "recs_genres" -> 1
      [] pc = "recs_pop" -> 2
      [] pc \in {"search", "search_track"} -> 3
      [] pc = "known_good" -> 4
      [] OTHER -> 5

Issued(stage) == \E k \in 1..Len(entered) : entered[k] = stage

Range(s) == {s[k] : k \in 1..Len(s)}

\* C1: recommend_tracks never propagates an exception, whatever each external
\* call does (raise, return nothing, return a value of any shape): the call
\* ends by returning a result that carries a 'tracks' list.
C1_NeverRaises ==
    /\ pc # "raised"
    /\ pc = "done" => result.kind = "dict"

\* C2: the fallback states are entered only in the forward order seed tracks,
\* fallback genres, single generic genre, artist search (then the known-good
\* ids): no call of an earlier state follows a call of a later one, and a call
\* that raised leaves the orchestration in the next position, never ended by
\* the exception.
C2_ForwardOnly ==
    /\ \A j, k \in 1..Len(entered) : j < k => entered[j] < entered[k]
    /\ entered # << >> => entered[Len(entered)] <= PcStage
    /\ last.raised =>
         /\ pc # "raised"
         /\ last.call = "track_seed" => pc \in {"validate", "recs_seed", "recs_genres"}
         /\ last.call = "recs_seed" => pc = "recs_genres"
         /\ last.call = "recs_genres" => pc = "recs_pop"
         /\ last.call = "recs_pop" => pc = "search"
         /\ last.call = "search" => pc \in {"search", "known_good"}
         /\ last.call = "track_search" => pc \in {"search_track", "search", "known_good"}
         /\ last.call = "track_known" =>
              \/ pc = "known_good"
              \/ pc = "done" /\ result.kind = "dict" /\ result.tracks = << >>

C2_Witness ==
    /\ pc = "search"
    /\ last = [call |-> "recs_pop", raised |-> TRUE]
    /\ entered = <<0, 1, 2>>

\* The raw seeds among the first SeedCap that passed validation.
FirstPassedSeeds ==
    {s \in okLookup : Cardinality({t \in okLookup : t < s}) < SeedCap}

SeedCallYieldedNothing == seedArg # << >> /\ 0 \notin yielded

\* C3 as stated: the fallback-genre call is issued only when no seed passed
\* validation or the seed-based call raised or returned no tracks; the
\* single-genre call only when the fallback-genre call also yielded no tracks;
\* once a recommendation call returns at least one track, that result is
\* returned unchanged and no further external call is made.
C3_Original ==
    /\ Issued(1) => (okLookup = {} \/ SeedCallYieldedNothing)
    /\ Issued(2) => (Issued(1) /\ 1 \notin yielded)
    /\ hit # NoneR => (pc = "done" /\ result = hit)

\* C3 amended: the fallback-genre call is issued only when none of the first
\* five seeds that passed validation carries an id (so no seed id is
\* available), or the seed-based call raised or returned no tracks; the rest
\* as stated.
C3_LaterOnlyAfterNothing ==
    /\ Issued(1) => (FirstPassedSeeds \cap okWithId = {} \/ SeedCallYieldedNothing)
    /\ Issued(2) => (Issued(1) /\ 1 \notin yielded)
    /\ hit # NoneR => (pc = "done" /\ result = hit)

C3_Witness ==
    /\ pc = "done"
    /\ entered = <<0, 1, 2>>
    /\ seedArg # << >>
    /\ hit # NoneR
    /\ Len(hit.tracks) = 2

C5_SeedsValidated ==
    /\ Range(seedArg) \subseteq okLookup
    /\ Len(seedArg) <= 5
    /\ pc = "recs_seed" => (Range(valid_seeds) \subseteq okLookup /\ Len(valid_seeds) <= 5)

C5_Witness ==
    /\ Len(seedArg) = 5
    /\ Cardinality(okLookup) = 6
    /\ Cardinality(okWithId) = 6

\* C6: when recommend_tracks returns from the search fallback, it returns
\* exactly one track, and that track is the first one, in artist-query order
\* and then search-result order, that passed the playability check: no track
\* that passes the check is skipped in favour of a later one.
C6_FirstPlayable ==
    (pc = "done" /\ result.tracks # << >> /\ result.tracks[1].src = "search") =>
      /\ Len(result.tracks) = 1
      /\ [q |-> result.tracks[1].q, idx |-> result.tracks[1].idx] = firstPassed

-----------------------------------------------------------------------------
(* EmotionDetector.predict *)

MaxRaw == 2

\* Scores are floats in the source; here exact rationals [num, den], kept in
\* lowest terms. A raw score k stands for k/10.
RECURSIVE GCD(_, _)
GCD(a, b) == IF b = 0 THEN a ELSE GCD(b, a % b)

Reduce(x) ==
    LET g == GCD(x.num, x.den)
    IN  [num |-> x.num \div g, den |-> x.den \div g]

Zero == [num |-> 0, den |-> 1]

float(k) == Reduce([num |-> k, den |-> 10])

RAdd(x, y) == Reduce([num |-> x.num * y.den + y.num * x.den, den |-> x.den * y.den])

RDiv(x, y) == Reduce([num |-> x.num * y.den, den |-> x.den * y.num])

RLess(x, y) == x.num * y.den < y.num * x.den

TARGET_EMOTIONS == <<"happy", "sad", "relaxed", "anxious", "angry">>

Targets == {TARGET_EMOTIONS[k] : k \in 1..Len(TARGET_EMOTIONS)}

LABEL_MAP ==
    [l \in {"joy", "happiness", "sadness", "anger", "anger/annoyance", "fear",
            "anxiety", "relief", "calm"} |->
       CASE l \in {"joy", "happiness"} -> "happy"
         [] l = "sadness" -> "sad"
         [] l \in {"anger", "anger/annoyance"} -> "angry"
         [] l \in {"fear", "anxiety"} -> "anxious"
         [] OTHER -> "relaxed"]

\* LABEL_MAP.get(label, None)
LabelMapGet(label) == IF label \in DOMAIN LABEL_MAP THEN LABEL_MAP[label] ELSE "None"

\* The labels a classifier emits here, and str.lower on them.
RawLabels == {"joy", "Joy", "sadness", "relaxed", "Angry", "neutral", "disgust"}

lower(l) ==
    CASE l = "Joy" -> "joy"
      [] l = "Angry" -> "angry"
      [] OTHER -> l

RawScores == {0, 2, 8}

RawOutputs == SeqsUpTo([label : RawLabels, score : RawScores], MaxRaw)

Accumulate_no_direct(sc, entry) ==
    LET label == lower(entry.label)
        score == float(entry.score)
        mapped == LabelMapGet(label)
    IN  IF mapped \in DOMAIN sc THEN [sc EXCEPT ![mapped] = RAdd(@, score)]
        ELSE sc

\* the body of `for entry in raw`
Accumulate(sc, entry) ==
    LET label == lower(entry.label)
        score == float(entry.score)
        mapped == LabelMapGet(label)
    IN  IF mapped \in DOMAIN sc THEN [sc EXCEPT ![mapped] = RAdd(@, score)]
        ELSE IF label \in DOMAIN sc THEN [sc EXCEPT ![label] = RAdd(@, score)]
        ELSE sc

RECURSIVE SumFrom(_, _)
SumFrom(sc, k) ==
    IF k > Len(TARGET_EMOTIONS) THEN Zero
    ELSE RAdd(sc[TARGET_EMOTIONS[k]], SumFrom(sc, k + 1))

\* sum(scores.values())
SumValues(sc) == SumFrom(sc, 1)

\* `if s > 0: for k in scores: scores[k] /= s`
Normalize(sc) ==
    LET s == SumValues(sc)
    IN  IF RLess(Zero, s) THEN [e \in DOMAIN sc |-> RDiv(sc[e], s)] ELSE sc

TopOf_last(sc) ==
    LET best == {k \in 1..Len(TARGET_EMOTIONS) :
                   \A j \in 1..Len(TARGET_EMOTIONS) :
                      ~RLess(sc[TARGET_EMOTIONS[k]], sc[TARGET_EMOTIONS[j]])}
        final == CHOOSE k \in best : \A j \in best : k >= j
    IN  TARGET_EMOTIONS[final]

\* max(scores.items(), key=lambda x: x[1]): the first item, in the order of the
\* dict's keys, that no other item exceeds
TopOf(sc) ==
    LET best == {k \in 1..Len(TARGET_EMOTIONS) :
                   \A j \in 1..Len(TARGET_EMOTIONS) :
                      ~RLess(sc[TARGET_EMOTIONS[k]], sc[TARGET_EMOTIONS[j]])}
        first == CHOOSE k \in best : \A j \in best : k <= j
    IN  TARGET_EMOTIONS[first]

IdleRec ==
    /\ pc = "idle"
    /\ n = 0
    /\ i = 1
    /\ valid_seed_objs = << >>
    /\ valid_seeds = << >>
    /\ result = NoneR
    /\ q = 1
    /\ items = 0
    /\ idx = 1
    /\ kid = 1
    /\ okLookup = {}
    /\ entered = << >>
    /\ last = [call |-> "none", raised |-> FALSE]
    /\ hit = NoneR
    /\ yielded = {}
    /\ firstPassed = NoPos
    /\ okWithId = {}
    /\ seedArg = << >>

\* predict(text) once the classifier has answered raw and scores is zeroed
InitPredict ==
    /\ IdleRec
    /\ IdleGen
    /\ IdleUI
    /\ IdlePlaylist
    /\ ppc = "loop"
    /\ raw \in RawOutputs
    /\ pidx = 1
    /\ scores = [e \in Targets |-> Zero]
    /\ top = "none"
    /\ top_score = Zero

PredictEntry ==
    /\ ppc = "loop"
    /\ pidx <= Len(raw)
    /\ scores' = Accumulate(scores, raw[pidx])
    /\ pidx' = pidx + 1
    /\ UNCHANGED <<ppc, raw, top, top_score>>
    /\ UNCHANGED <<recVars, genVars, uiVars, plVars>>

PredictFinish ==
    /\ ppc = "loop"
    /\ pidx > Len(raw)
    /\ scores' = Normalize(scores)
    /\ top' = TopOf(scores')
    /\ top_score' = scores'[top']
    /\ ppc' = "done"
    /\ UNCHANGED <<raw, pidx>>
    /\ UNCHANGED <<recVars, genVars, uiVars, plVars>>

NextPredict ==
    \/ PredictEntry
    \/ PredictFinish

SpecPredict == InitPredict /\ [][NextPredict]_vars

-----------------------------------------------------------------------------
(* Claims about EmotionDetector.predict *)

NonNegative(sc) == \A e \in DOMAIN sc : sc[e].num >= 0 /\ sc[e].den > 0

\* The weights add up to exactly 1.
SumsToOne(sc) ==
    LET s == SumValues(sc) IN s.num = s.den

Recognized(l) == lower(l) \in DOMAIN LABEL_MAP \/ lower(l) \in Targets

\* C7: for every raw classifier output with non-negative scores in which at
\* least one input score is positive, the scores returned by predict are all
\* non-negative and sum to exactly 1.
C7_Normalized ==
    (ppc = "done" /\ \E k \in 1..Len(raw) : raw[k].score > 0) =>
      (NonNegative(scores) /\ SumsToOne(scores))

\* C8: for the raw output [(joy, 0.8), (neutral, 0.2)], predict yields
\* happy = 0.8, neutral = 0.2, every other category 0, and top = happy.
C8_ScenarioA ==
    (ppc = "done" /\ raw = <<[label |-> "joy", score |-> 8],
                            [label |-> "neutral", score |-> 2]>>) =>
      /\ scores["happy"] = float(8)
      /\ "neutral" \in DOMAIN scores
      /\ scores["neutral"] = float(2)
      /\ \A e \in DOMAIN scores \ {"happy", "neutral"} : scores[e] = Zero
      /\ top = "happy"

\* C9: when none of the raw labels is recognized (none is in the mapping table
\* and none equals a category name), predict resolves the top category to the
\* default member 'neutral'.
C9_DefaultNeutral ==
    (ppc = "done" /\ raw # << >> /\ \A k \in 1..Len(raw) : ~Recognized(raw[k].label)) =>
      top = "neutral"

\* C10: when the total accumulated mass is zero (empty classifier output, all
\* scores zero, or all labels unrecognized), the scores returned by predict
\* are still a probability distribution over the full category set:
\* non-negative and summing to 1.
C10_ZeroMassStillDistribution ==
    (ppc = "done" /\ \A k \in 1..Len(raw) : raw[k].score = 0 \/ ~Recognized(raw[k].label)) =>
      /\ DOMAIN scores = Targets
      /\ NonNegative(scores)
      /\ SumsToOne(scores)

IndexOf(e) == CHOOSE k \in 1..Len(TARGET_EMOTIONS) : TARGET_EMOTIONS[k] = e

\* C11: the top category returned by predict is a member of the fixed
\* category set and is a category of maximum weight; when several categories
\* share the maximum weight, the first of them in the enumeration order is
\* returned.
C11_TopIsFirstArgmax ==
    ppc = "done" =>
      /\ top \in Targets
      /\ \A e \in Targets : ~RLess(scores[top], scores[e])
      /\ \A e \in Targets : IndexOf(e) < IndexOf(top) => RLess(scores[e], scores[top])
      /\ top_score = scores[top]

C11_Witness ==
    /\ ppc = "done"
    /\ top = "sad"
    /\ scores["sad"] = scores["relaxed"]
    /\ RLess(Zero, scores["sad"])

\* The category a raw label counts for: the table's, else the label itself
\* when it names a category, else none.
CategoryOf(l) ==
    IF lower(l) \in DOMAIN LABEL_MAP THEN LABEL_MAP[lower(l)]
    ELSE IF lower(l) \in Targets THEN lower(l)
    ELSE "discarded"

RECURSIVE ExpectedWeight(_, _)
ExpectedWeight(c, upto) ==
    IF upto = 0 THEN Zero
    ELSE RAdd(ExpectedWeight(c, upto - 1),
              IF CategoryOf(raw[upto].label) = c THEN float(raw[upto].score) ELSE Zero)

\* C19: before normalization, the weight accumulated for a category c is the
\* sum of the scores of exactly those raw pairs whose lower-cased label maps to
\* c in the mapping table or, when the label is not in the table, equals the
\* name of c; every other pair is discarded and changes no weight.
C19_AccumulatedWeights ==
    ppc = "loop" => \A c \in Targets : scores[c] = ExpectedWeight(c, pidx - 1)

C19_Witness ==
    /\ ppc = "loop"
    /\ Len(raw) = 2
    /\ pidx = 3
    /\ raw[1] = [label |-> "Angry", score |-> 8]
    /\ raw[2] = [label |-> "neutral", score |-> 2]
    /\ scores["angry"] = float(8)

-----------------------------------------------------------------------------
(* moodify.run_generation *)

MaxPool == 3
MaxIds == 2

\* k=10 of the score_and_sample_tracks call
SampleSize == 10

\* Sequences without repetition over S.
DistinctSeqs(S) ==
    {s \in SeqsUpTo(S, Cardinality(S)) : \A j, k \in 1..Len(s) : j # k => s[j] # s[k]}

\* get_user_top_and_recent_track_objects: any pool of track objects; a track
\* may come without an id (0), and an id may occur more than once.
CandidatePools == SeqsUpTo(0..MaxIds, MaxPool)

\* [t["id"] for t in candidates if t.get("id")]
TrackIds(cands) == SelectSeq(cands, LAMBDA c : c # 0)

\* fetch_audio_features_map(sp, track_ids): a dict from some of the requested
\* ids to their features, its values() in any order.
FeatureMaps(ids) == DistinctSeqs({ids[k] : k \in 1..Len(ids)})

\* score_and_sample_tracks(features, k=10, ...): distinct indices into the
\* list it was handed, at most min(k, len) of them.
Samples(len) ==
    {s \in DistinctSeqs(0..(len - 1)) : Len(s) <= Min(SampleSize, len)}

\* [features_map[tid] for tid in track_ids if tid in features_map]
OrderedFeatures(ids, fmap) ==
    SelectSeq(ids, LAMBDA t : \E k \in 1..Len(fmap) : fmap[k] = t)

\* next((c for c in candidates if c.get("id") == fid), None), as a position
\* in candidates (0: None)
FirstWithId(cands, fid) ==
    IF \E k \in 1..Len(cands) : cands[k] = fid
    THEN CHOOSE k \in 1..Len(cands) :
           cands[k] = fid /\ \A j \in 1..(k - 1) : cands[j] # fid
    ELSE 0

\* the loop `for idx in sampled_indices`
RECURSIVE MapBack(_, _, _)
MapBack(cands, ordered, indices) ==
    IF indices = << >> THEN << >>
    ELSE LET ix == Head(indices)
             rest == MapBack(cands, ordered, Tail(indices))
         IN  IF 0 <= ix /\ ix < Len(ordered)
             THEN LET t == FirstWithId(cands, ordered[ix + 1])
                  IN  IF t # 0 THEN <<t>> \o rest ELSE rest
             ELSE rest

\* run_generation once predict has returned; the Spotify calls may raise.
InitGen ==
    /\ IdleRec
    /\ IdlePredict
    /\ IdleUI
    /\ IdlePlaylist
    /\ gpc = "candidates"
    /\ candidates = << >>
    /\ track_ids = << >>
    /\ forder = << >>
    /\ sampled_indices = << >>
    /\ sampled_tracks = << >>

GenCandidates ==
    /\ gpc = "candidates"
    /\ \/ /\ gpc' = "raised"
          /\ UNCHANGED candidates
       \/ \E pool \in CandidatePools :
            /\ candidates' = pool
            /\ gpc' = IF pool = << >> THEN "done" ELSE "features"
    /\ UNCHANGED <<track_ids, forder, sampled_indices, sampled_tracks>>
    /\ UNCHANGED <<recVars, predVars, uiVars, plVars>>

GenFeatures ==
    /\ gpc = "features"
    /\ track_ids' = TrackIds(candidates)
    /\ \/ /\ gpc' = "raised"
          /\ UNCHANGED forder
       \/ /\ forder' \in FeatureMaps(track_ids')
          /\ gpc' = "sample"
    /\ UNCHANGED <<candidates, sampled_indices, sampled_tracks>>
    /\ UNCHANGED <<recVars, predVars, uiVars, plVars>>

GenSample ==
    /\ gpc = "sample"
    /\ sampled_indices' \in Samples(Len(forder))
    /\ gpc' = "map"
    /\ UNCHANGED <<candidates, track_ids, forder, sampled_tracks>>
    /\ UNCHANGED <<recVars, predVars, uiVars, plVars>>

GenMapBack ==
    /\ gpc = "map"
    /\ sampled_tracks' = MapBack(candidates, OrderedFeatures(track_ids, forder),
                                 sampled_indices)
    /\ gpc' = "done"
    /\ UNCHANGED <<candidates, track_ids, forder, sampled_indices>>
    /\ UNCHANGED <<recVars, predVars, uiVars, plVars>>

NextGen ==
    \/ GenCandidates
    \/ GenFeatures
    \/ GenSample
    \/ GenMapBack

SpecGen == InitGen /\ [][NextGen]_vars

\* C12: the track list returned by run_generation contains no track twice and
\* at most min(10, pool size) tracks, for every candidate pool (also one in
\* which a track id occurs more than once) and every set of distinct indices
\* returned by the sampler.
C12_NoDuplicates ==
    gpc = "done" =>
      /\ \A j, k \in 1..Len(sampled_tracks) : j # k => sampled_tracks[j] # sampled_tracks[k]
      /\ Len(sampled_tracks) <= Min(10, Len(candidates))

\* C20: each sampled index is mapped back to its originating track: the track
\* returned for a sampled index i is the track whose feature profile stood at
\* position i of the list handed to the sampler, for every pool and every
\* ordering of the feature map.
C20_IndexMapsToOrigin ==
    (gpc = "done" /\ candidates # << >>) =>
      /\ Len(sampled_tracks) = Len(sampled_indices)
      /\ \A k \in 1..Len(sampled_tracks) :
           candidates[sampled_tracks[k]] = forder[sampled_indices[k] + 1]

-----------------------------------------------------------------------------
(* moodify.py: one run of the script per UI event *)

MaxRuns == 2
MaxPlaylist == 2

\* The text area: empty, whitespace only, or a description.
Prompts == {"", "  ", "sad day"}

Behaviors == {"Match my mood", "Change my mood"}

\* What run_generation returns as sampled_tracks: track objects, with or
\* without a 'uri'.
SampledLists == SeqsUpTo([uri : BOOLEAN], MaxPlaylist)

Stored == <<current_playlist, features_map, last_emotion, last_behavior, last_prompt>>

\* [t["uri"] for t in current_playlist if t.get("uri")], each uri named by the
\* run and the position of its track
RECURSIVE UrisFrom(_, _, _)
UrisFrom(run, tracks, k) ==
    IF k > Len(tracks) THEN << >>
    ELSE IF tracks[k].uri
         THEN <<[run |-> run, pos |-> k]>> \o UrisFrom(run, tracks, k + 1)
         ELSE UrisFrom(run, tracks, k + 1)

UrisOf(pl) == UrisFrom(pl.run, pl.val, 1)

StoredAfterSave_reset(stored, outcome) ==
    IF outcome = "raise" THEN <<NoneV, NoneV, NoneV, NoneV, NoneV>> ELSE stored

\* the save branch stores nothing, whether the call returns or raises
StoredAfterSave(stored, outcome) == stored

InitUI ==
    /\ IdleRec
    /\ IdlePredict
    /\ IdleGen
    /\ IdlePlaylist
    /\ st_sp = "None"
    /\ current_playlist = NoneV
    /\ features_map = NoneV
    /\ last_emotion = NoneV
    /\ last_behavior = NoneV
    /\ last_prompt = NoneV
    /\ runs = 0
    /\ predictCalls = {}
    /\ lastEvent = "none"
    /\ before = << >>
    /\ createArg = << >>
    /\ lastClick = NoClick

Connected_always(sp) == TRUE

\* the connection gate: the script goes past st.stop() only with a client
Connected(sp) == sp # "None"

NoTracks_never(tracks) == FALSE

\* if not sampled_tracks
NoTracks(tracks) == tracks = << >>

Click(button) == [button |-> button, hadPlaylist |-> current_playlist # NoneV]

\* "Connect to Spotify" clicked while no client is stored
ConnectClick ==
    /\ ~ Connected(st_sp)
    /\ \/ /\ st_sp' = "client"
          /\ lastEvent' = "connected"
       \/ \* the client is stored, then user["id"] raises
          /\ st_sp' = "client"
          /\ lastEvent' = "connect_failed"
       \/ /\ st_sp' = "None"
          /\ lastEvent' = "connect_failed"
    /\ lastClick' = Click("connect")
    /\ before' = << >>
    /\ createArg' = << >>
    /\ UNCHANGED <<current_playlist, features_map, last_emotion, last_behavior,
                   last_prompt, runs, predictCalls>>
    /\ UNCHANGED <<recVars, predVars, genVars, plVars>>

\* the generate-or-refresh branch: run_generation and the store of its result
Generation(prompt, behavior) ==
    /\ runs < MaxRuns
    /\ runs' = runs + 1
    /\ createArg' = << >>
    /\ \/ \* EmotionDetector() raises
          /\ lastEvent' = "gen_failed"
          /\ before' = Stored
          /\ UNCHANGED <<predictCalls, current_playlist, features_map, last_emotion,
                         last_behavior, last_prompt>>
       \/ \* predict or a Spotify call raises
          /\ predictCalls' = predictCalls \cup {prompt}
          /\ lastEvent' = "gen_failed"
          /\ before' = Stored
          /\ UNCHANGED <<current_playlist, features_map, last_emotion, last_behavior,
                         last_prompt>>
       \/ \E emotion \in Targets, tracks \in SampledLists :
            /\ predictCalls' = predictCalls \cup {prompt}
            /\ IF NoTracks(tracks)
               THEN /\ lastEvent' = "gen_empty"
                    /\ before' = Stored
                    /\ UNCHANGED <<current_playlist, features_map, last_emotion,
                                   last_behavior, last_prompt>>
               ELSE /\ lastEvent' = "generated"
                    /\ before' = << >>
                    /\ current_playlist' = [run |-> runs', val |-> tracks]
                    /\ features_map' = [run |-> runs', val |-> << >>]
                    /\ last_emotion' = [run |-> runs', val |-> emotion]
                    /\ last_behavior' = [run |-> runs', val |-> behavior]
                    /\ last_prompt' = [run |-> runs', val |-> prompt]
    /\ UNCHANGED st_sp
    /\ UNCHANGED <<recVars, predVars, genVars, plVars>>

\* "Generate playlist" clicked
GenerateClick ==
    /\ Connected(st_sp)
    /\ lastClick' = Click("generate")
    /\ \E prompt \in Prompts, behavior \in Behaviors : Generation(prompt, behavior)

\* "Refresh playlist" clicked
RefreshClick ==
    /\ Connected(st_sp)
    /\ lastClick' = Click("refresh")
    /\ \/ /\ current_playlist # NoneV
          /\ \E prompt \in Prompts, behavior \in Behaviors : Generation(prompt, behavior)
       \/ /\ current_playlist = NoneV
          /\ lastEvent' = "refresh_ignored"
          /\ before' = << >>
          /\ createArg' = << >>
          /\ UNCHANGED <<st_sp, current_playlist, features_map, last_emotion,
                         last_behavior, last_prompt, runs, predictCalls>>
          /\ UNCHANGED <<recVars, predVars, genVars, plVars>>

\* "Create Spotify playlist (save)" clicked
SaveClick ==
    /\ Connected(st_sp)
    /\ lastClick' = Click("save")
    /\ before' = Stored
    /\ \/ /\ current_playlist.val = << >>
          /\ lastEvent' = "save_ignored"
          /\ createArg' = << >>
          /\ UNCHANGED <<current_playlist, features_map, last_emotion, last_behavior,
                         last_prompt>>
       \/ /\ current_playlist.val # << >>
          /\ UrisOf(current_playlist) = << >>
          /\ lastEvent' = "save_no_uris"
          /\ createArg' = << >>
          /\ UNCHANGED <<current_playlist, features_map, last_emotion, last_behavior,
                         last_prompt>>
       \/ /\ current_playlist.val # << >>
          /\ UrisOf(current_playlist) # << >>
          /\ createArg' = UrisOf(current_playlist)
          /\ \E outcome \in {"ok", "raise"} :
               /\ lastEvent' = IF outcome = "ok" THEN "save_ok" ELSE "save_failed"
               /\ LET after == StoredAfterSave(Stored, outcome)
                  IN  /\ current_playlist' = after[1]
                      /\ features_map' = after[2]
                      /\ last_emotion' = after[3]
                      /\ last_behavior' = after[4]
                      /\ last_prompt' = after[5]
    /\ UNCHANGED <<st_sp, runs, predictCalls>>
    /\ UNCHANGED <<recVars, predVars, genVars, plVars>>

NextUI ==
    \/ ConnectClick
    \/ GenerateClick
    \/ RefreshClick
    \/ SaveClick

SpecUI == InitUI /\ [][NextUI]_vars

\* C13: an empty or whitespace-only mood description is rejected before the
\* classifier is invoked: predict is never called with such a prompt.
C13_BlankPromptRejected == predictCalls \cap {"", "  "} = {}

\* C14: if playlist creation fails when the user clicks save, the stored
\* session result (current_playlist, features_map, last_emotion, last_behavior,
\* last_prompt) is left unchanged: the sampled playlist is still stored, and a
\* save click submits the tracks of the stored playlist, so a later click
\* retries with the same tracks.
C14_FailedSaveKeepsResult ==
    /\ lastEvent = "save_failed" =>
         /\ Stored = before
         /\ current_playlist.val # << >>
    /\ lastEvent \in {"save_failed", "save_ok"} => createArg = UrisOf(current_playlist)

C14_Witness ==
    /\ lastEvent = "save_failed"
    /\ Len(createArg) = 2
    /\ current_playlist.run = 2

-----------------------------------------------------------------------------
(* spotify_helper.py: normalize_ids and create_playlist_and_add_tracks *)

MaxRefs == 2
MaxBatches == 2
BatchSize == 100

RefIds == {1, 2}

\* A seed or track reference.  kind says what the value is; a string carries
\* the track id it spells (0 if none), whether a '?...' query follows the id
\* (web URL only) and whether whitespace surrounds it.
\*   none         None                         int     a number
\*   dict_empty   {}                           dict_nokeys  a dict without uri and id
\*   dict_uri     {'uri': 'spotify:track:<id>'}
\*   dict_id      {'id': '<id>'}               dict_both    a track object with both
\*   uri          'spotify:track:<id>'         id      the bare 22-character id
\*   url          'https://open.spotify.com/track/<id>'
\*   text         any other non-blank string, not 22 characters long
\*   empty        '' (pad: whitespace only)
Ref(kind, id, query, pad) == [kind |-> kind, id |-> id, query |-> query, pad |-> pad]

Uri(id) == Ref("uri", id, FALSE, FALSE)

BareId(id) == Ref("id", id, FALSE, FALSE)

Refs ==
    {Ref(k, 0, FALSE, FALSE) : k \in {"none", "int", "dict_empty", "dict_nokeys"}}
    \cup {Ref(k, id, FALSE, FALSE) : k \in {"dict_uri", "dict_id", "dict_both"}, id \in RefIds}
    \cup {Ref(k, id, FALSE, pad) : k \in {"uri", "id"}, id \in RefIds, pad \in BOOLEAN}
    \cup {Ref("url", id, query, pad) : id \in RefIds, query \in BOOLEAN, pad \in BOOLEAN}
    \cup {Ref(k, 0, FALSE, pad) : k \in {"text", "empty"}, pad \in BOOLEAN}

IsStr(s) == s.kind \in {"uri", "id", "url", "text", "empty"}

IsDict(s) == s.kind \in {"dict_empty", "dict_nokeys", "dict_uri", "dict_id", "dict_both"}

\* Python truth value
Truthy(s) == ~ (s.kind \in {"none", "dict_empty"} \/ (s.kind = "empty" /\ ~ s.pad))

\* s.strip()
strip(s) == [s EXCEPT !.pad = FALSE]

\* s.startswith("spotify:track:")
StartsWithTrack(s) == s.kind = "uri" /\ ~ s.pad

\* "open.spotify.com/track/" in s
HasTrackUrl(s) == s.kind = "url"

\* len(s) == 22
Len22(s) == s.kind = "id" /\ ~ s.pad

\* s.split("track/")[1].split("?")[0]
UrlId(s) == BareId(s.id)

\* one iteration of the loop of normalize_ids: what it appends to cleaned
NormalizeOne(s) ==
    IF ~ Truthy(s) THEN << >>
    ELSE IF IsDict(s)
         THEN IF s.kind \in {"dict_uri", "dict_both"} THEN <<Uri(s.id)>>
              ELSE IF s.kind = "dict_id" THEN <<BareId(s.id)>>
              ELSE << >>
    ELSE IF ~ IsStr(s) THEN << >>
    ELSE LET t == strip(s)
         IN  IF StartsWithTrack(t) THEN <<t>>
             ELSE IF HasTrackUrl(t) THEN <<UrlId(t)>>
             ELSE IF Len22(t) THEN <<t>>
             ELSE <<t>>

Appended(out) == out # << >>

\* cleaned: what the iterations appended, in order
normalize_ids(seeds) ==
    LET outs == SelectSeq([k \in 1..Len(seeds) |-> NormalizeOne(seeds[k])], Appended)
    IN  [k \in 1..Len(outs) |-> outs[k][1]]

PrepareOne_no_bare_id(it) ==
    IF IsStr(it) /\ StartsWithTrack(it) THEN it
    ELSE IF IsStr(it) /\ HasTrackUrl(it) THEN Uri(it.id)
    ELSE IF IsDict(it) /\ it.kind \in {"dict_uri", "dict_both"} THEN Uri(it.id)
    ELSE it

\* one iteration of the loop that builds prepared
PrepareOne(it) ==
    IF IsStr(it) /\ StartsWithTrack(it) THEN it
    ELSE IF IsStr(it) /\ Len22(it) THEN Uri(it.id)
    ELSE IF IsStr(it) /\ HasTrackUrl(it) THEN Uri(it.id)
    ELSE IF IsDict(it) /\ it.kind \in {"dict_uri", "dict_both"} THEN Uri(it.id)
    ELSE it

FilterFalsy_keep_all(ps) == ps

\* prepared = [p for p in prepared if p]
FilterFalsy(ps) == SelectSeq(ps, Truthy)

\* track_ids or []
OrEmpty(arg) == IF arg.isNone \/ arg.val = << >> THEN << >> ELSE arg.val

\* items and prepared of create_playlist_and_add_tracks
Prepared(arg) ==
    LET its == normalize_ids(OrEmpty(arg))
    IN  FilterFalsy([k \in 1..Len(its) |-> PrepareOne(its[k])])

Chunk_overlap(ps, start) ==
    SubSeq(ps, start + 1, Min(start + BatchSize + 1, Len(ps)))

\* prepared[i:i+100]
Chunk(ps, start) == SubSeq(ps, start + 1, Min(start + BatchSize, Len(ps)))

\* the lengths around the batch boundaries
LongLens == {b * BatchSize + d : b \in 1..MaxBatches, d \in {-1, 0, 1}}

\* the track_ids a caller can pass: None, short lists of references of any
\* kind, and long lists of distinct track URIs
TrackIdArgs ==
    {NoneArg}
    \cup {[isNone |-> FALSE, val |-> v] : v \in SeqsUpTo(Refs, MaxRefs)}
    \cup {[isNone |-> FALSE, val |-> [k \in 1..len |-> Uri(k)]] : len \in LongLens}

InitPlaylist ==
    /\ IdleRec
    /\ IdlePredict
    /\ IdleGen
    /\ IdleUI
    /\ cpc = "start"
    /\ pl_track_ids \in TrackIdArgs
    /\ prepared = << >>
    /\ chunk_start = 0
    /\ added = << >>
    /\ created = 0

\* normalize, prepare, filter; ValueError if nothing is left
Prepare ==
    /\ cpc = "start"
    /\ prepared' = Prepared(pl_track_ids)
    /\ cpc' = IF prepared' = << >> THEN "raised" ELSE "create"
    /\ UNCHANGED <<pl_track_ids, chunk_start, added, created>>
    /\ UNCHANGED <<recVars, predVars, genVars, uiVars>>

\* sp.user_playlist_create(...)
CreatePlaylist ==
    /\ cpc = "create"
    /\ created' = created + 1
    /\ \/ cpc' = "service_raised"
       \/ cpc' = "add"
    /\ UNCHANGED <<pl_track_ids, prepared, chunk_start, added>>
    /\ UNCHANGED <<recVars, predVars, genVars, uiVars>>

\* one iteration of the batch loop: sp.playlist_add_items(..., items=chunk)
AddItems ==
    /\ cpc = "add"
    /\ chunk_start < Len(prepared)
    /\ added' = Append(added, Chunk(prepared, chunk_start))
    /\ \/ /\ cpc' = "service_raised"
          /\ UNCHANGED chunk_start
       \/ /\ chunk_start' = chunk_start + BatchSize
          /\ cpc' = IF chunk_start' < Len(prepared) THEN "add" ELSE "done"
    /\ UNCHANGED <<pl_track_ids, prepared, created>>
    /\ UNCHANGED <<recVars, predVars, genVars, uiVars>>

NextPlaylist ==
    \/ Prepare
    \/ CreatePlaylist
    \/ AddItems

SpecPlaylist == InitPlaylist /\ [][NextPlaylist]_vars

RECURSIVE Flatten(_)
Flatten(batches) ==
    IF batches = << >> THEN << >> ELSE Head(batches) \o Flatten(Tail(batches))

\* C15: tracks are added to the created playlist in batches of at most 100;
\* every batch is non-empty, and the concatenation of the batches in call
\* order is the normalized list (a prefix of it while the loop is running or
\* after a call raised; the whole list when the function returns).
C15_Batches ==
    /\ \A k \in 1..Len(added) : Len(added[k]) \in 1..BatchSize
    /\ Len(Flatten(added)) <= Len(prepared)
    /\ Flatten(added) = SubSeq(prepared, 1, Len(Flatten(added)))
    /\ cpc = "done" => Flatten(added) = prepared

C15_Witness ==
    /\ cpc = "done"
    /\ Len(added) = 3
    /\ Len(added[3]) = 1

\* the forms of one track reference that spell the track x
EquivalentForm(r, x) ==
    /\ r.kind \in {"uri", "id", "url", "dict_uri", "dict_id", "dict_both"}
    /\ r.id = x

\* C16: the equivalent forms of a reference to a track (the URI
\* 'spotify:track:<id>', the bare 22-character id, the web URL, a track dict)
\* all normalize to the same submitted reference, the URI of the track; and
\* normalizing the already-normalized list again gives the same list.
C16_SameReference ==
    (cpc # "start" /\ ~ pl_track_ids.isNone) =>
        /\ (\A k \in 1..Len(pl_track_ids.val) :
                \E x \in RefIds : EquivalentForm(pl_track_ids.val[k], x))
           => prepared = [k \in 1..Len(pl_track_ids.val) |-> Uri(pl_track_ids.val[k].id)]
        /\ Prepared([isNone |-> FALSE, val |-> prepared]) = prepared

C16_Witness ==
    /\ cpc = "create"
    /\ Len(pl_track_ids.val) = 2
    /\ pl_track_ids.val[1] = Ref("url", 1, TRUE, FALSE)
    /\ pl_track_ids.val[2] = BareId(1)
    /\ prepared = <<Uri(1), Uri(1)>>

\* an entry that names no track: None, a falsy or non-string non-dict value,
\* a dict without uri and id, an empty or whitespace-only string
Unusable(r) == r.kind \in {"none", "int", "dict_empty", "dict_nokeys", "empty"}

NoValidReference(arg) ==
    arg.isNone \/ \A k \in 1..Len(arg.val) : Unusable(arg.val[k])

\* C17: if the input holds no valid reference (empty list, None, or only falsy
\* or unusable entries), create_playlist_and_add_tracks raises ValueError and
\* makes no call to the service; and ValueError is never raised after a call.
C17_NoReferenceNoCall ==
    /\ (cpc # "start" /\ NoValidReference(pl_track_ids)) => cpc = "raised"
    /\ cpc = "raised" => (created = 0 /\ added = << >>)

C17_Witness ==
    /\ cpc = "raised"
    /\ Len(pl_track_ids.val) = 2
    /\ pl_track_ids.val[1] = Ref("empty", 0, FALSE, TRUE)
    /\ pl_track_ids.val[2] = Ref("dict_nokeys", 0, FALSE, FALSE)
    /\ created = 0

-----------------------------------------------------------------------------
(* retry policy for the calls of recommend_tracks *)

\* C18: a transient failure of an external catalog call is retried a small
\* fixed number of times (2) before the caller gives up on that call: after a
\* recommendation call has raised, the orchestration is still at that call,
\* about to attempt it again.
C18_FailedCallRetried ==
    (last.raised /\ last.call \in {"recs_seed", "recs_genres", "recs_pop"})
        => pc = last.call

-----------------------------------------------------------------------------
(* moodify.py: the stored session result and the gates of the script *)

Unset(v) == v = NoneV

FromRun(v, r) == v.run = r

\* C21: after any sequence of generate, refresh and save clicks the stored
\* session result is consistent: current_playlist is unset or a non-empty
\* list; current_playlist, features_map, last_emotion, last_behavior and
\* last_prompt are all unset or all come from the same successful generation
\* run; a generation that raised or yielded no tracks left all five unchanged.
C21_SessionConsistent ==
    /\ Unset(current_playlist) \/ current_playlist.val # << >>
    /\ \/ \A k \in 1..5 : Unset(Stored[k])
       \/ \E r \in 1..runs : \A k \in 1..5 : FromRun(Stored[k], r)
    /\ lastEvent \in {"gen_failed", "gen_empty"} => Stored = before

C21_Witness ==
    /\ lastEvent = "gen_empty"
    /\ lastClick.button = "refresh"
    /\ current_playlist.run = 1
    /\ last_prompt.run = 1
    /\ runs = 2

\* C22: after any sequence of UI events, a generation or a playlist-creation
\* call has been made only with a connected client; a refresh click started a
\* generation only when a playlist was already stored; a save click called the
\* playlist-creation operation only with a non-empty generated playlist stored.
C22_Gated ==
    /\ (runs > 0 \/ predictCalls # {} \/ createArg # << >>) => st_sp = "client"
    /\ (lastClick.button = "refresh" /\ lastEvent \in {"generated", "gen_failed", "gen_empty"})
          => lastClick.hadPlaylist
    /\ (lastClick.button = "refresh" /\ ~ lastClick.hadPlaylist)
          => lastEvent = "refresh_ignored"
    /\ (lastClick.button = "save" /\ createArg # << >>)
          => (current_playlist.run > 0 /\ current_playlist.val # << >>)
    /\ lastEvent \in {"save_ok", "save_failed"} => lastClick.button = "save"

C22_Witness ==
    /\ lastClick = [button |-> "refresh", hadPlaylist |-> TRUE]
    /\ lastEvent = "generated"
    /\ current_playlist.run = 2

=============================================================================
